---- MODULE Spec2Model ----
(***************************************************************************)
(* SphereModule (3D Slicer scripted module): SphereModuleLogic and         *)
(* SphereModuleWidget of src/MyFirstExtension/SphereModule/SphereModule.py *)
(*                                                                         *)
(* Reading conventions.  Python floats are modelled as exact rationals     *)
(* <<numerator, denominator>> in lowest terms; np.linalg.norm(v) is the    *)
(* symbolic value [sqrt |-> v.v].  `np` is read as numpy, and the two      *)
(* unbalanced parentheses (lines 98, 176) and the two mis-indented lines   *)
(* (138, 203) are read as the evidently intended statements.  The host     *)
(* (MRML scene, parameter node wrapper, VTK observers, Qt widgets) is      *)
(* modelled by its documented behaviour at the calls the source makes.     *)
(***************************************************************************)
EXTENDS Integers, Sequences, FiniteSets, TLC

VARIABLES mrml, logic, self, ui, last

vars == <<mrml, logic, self, ui, last>>

(***************************************************************************)
(* Bounds and value sets                                                   *)
(***************************************************************************)
MaxPoints == 3
WidgetMaxPoints == 2

None == "None"
MarkupIds == {"F1", "F2"}
ModelIds == {"SphereOutput1", "SphereOutput2"}

\* control point positions a script may place (logic specification)
PointVals == {<<0, 0, 0>>, <<10, 0, 0>>, <<-2, 4, 4>>}
\* the control point position the user places in the widget specification,
\* where only the number of points decides what the handlers do
WidgetPointVals == {<<10, 0, 0>>}
\* opacity a script passes, in tenths: the 0.7 of the test (the default 0.5 is 5)
Thresholds == {7}

(***************************************************************************)
(* Exact arithmetic standing for the float arithmetic of the source        *)
(***************************************************************************)
Abs(x) == IF x < 0 THEN -x ELSE x

RECURSIVE Gcd(_, _)
Gcd(a, b) == IF b = 0 THEN a ELSE Gcd(b, a % b)

\* n / d for an integer n and a positive integer d
Div(n, d) ==
    LET g == Gcd(Abs(n), d)
    IN  IF n = 0 THEN <<0, 1>> ELSE <<n \div g, d \div g>>

Zero3 == <<Div(0, 1), Div(0, 1), Div(0, 1)>>

Dot(u, v) == u[1] * v[1] + u[2] * v[2] + u[3] * v[3]
Sub(u, v) == <<u[1] - v[1], u[2] - v[2], u[3] - v[3]>>

\* np.linalg.norm(v): the non-negative root of v.v, kept symbolic
linalg_norm(v) == [sqrt |-> Div(Dot(v, v), 1)]
\* x / 2.0 for a symbolic root x: sqrt(q) / 2 = sqrt(q / 4)
HalfRoot(x) == [sqrt |-> Div(x.sqrt[1], x.sqrt[2] * 4)]

(***************************************************************************)
(* Exceptions                                                              *)
(***************************************************************************)
NoExc == [type |-> "none", msg |-> ""]
AttributeError(m) == [type |-> "AttributeError", msg |-> m]
ValueError(m) == [type |-> "ValueError", msg |-> m]
InvalidMsg == "Input markups or output model is invalid"
FewMsg == "At least two points are required."
NoneTypeMsg(attr) == "'NoneType' object has no attribute '" \o attr \o "'"

(***************************************************************************)
(* MRML nodes as the logic uses them                                       *)
(***************************************************************************)
NoPolyData == [set |-> FALSE]
NoDisplayNode == [exists |-> FALSE]
\* the display node CreateDefaultDisplayNodes makes when there is none
DefaultDisplayNode ==
    [exists |-> TRUE, color |-> <<5, 5, 5>>, opacity |-> 10,
     sliceIntersectionThickness |-> 1, visibility2D |-> FALSE]

GetNumberOfControlPoints(m, node) == Len(m.points[node])
\* GetNthControlPointPositionVector(i), called with i in range(num) only
GetNthControlPointPositionVector(m, node, i) == m.points[node][i + 1]
\* GetNthControlPointPosition(i, p) fills p, which lines 367-368 preset to zeros
GetNthControlPointPosition(m, node, i) ==
    IF i < Len(m.points[node]) THEN m.points[node][i + 1] ELSE <<0, 0, 0>>

\* vtkSphereSource with SetCenter, SetRadius, SetThetaResolution, SetPhiResolution
vtkSphereSource(center, radius, theta, phi) ==
    [set |-> TRUE, center |-> center, radius |-> radius,
     thetaResolution |-> theta, phiResolution |-> phi]

(***************************************************************************)
(* SphereModuleLogic                                                       *)
(***************************************************************************)
\* the for loop of getCenterOfMass: sumPos += np.array(pos) for i in range(num)
RECURSIVE SumPosLoop(_, _, _, _, _)
SumPosLoop(m, node, i, num, sumPos) ==
    IF i >= num THEN sumPos
    ELSE LET pos == GetNthControlPointPositionVector(m, node, i)
         IN  SumPosLoop(m, node, i + 1, num,
                        <<sumPos[1] + pos[1], sumPos[2] + pos[2], sumPos[3] + pos[3]>>)

\* mutant: the loop starts at the second control point
getCenterOfMass_SkipFirst(m, markupsNode) ==
    IF markupsNode = None
    THEN [exc |-> AttributeError(NoneTypeMsg("GetNumberOfControlPoints")), value |-> Zero3]
    ELSE LET num == GetNumberOfControlPoints(m, markupsNode)
         IN  IF num = 0
             THEN [exc |-> NoExc, value |-> Zero3]
             ELSE LET sumPos == SumPosLoop(m, markupsNode, 1, num, <<0, 0, 0>>)
                  IN  [exc |-> NoExc,
                       value |-> <<Div(sumPos[1], num), Div(sumPos[2], num), Div(sumPos[3], num)>>]

getCenterOfMass(m, markupsNode) ==
    IF markupsNode = None
    THEN [exc |-> AttributeError(NoneTypeMsg("GetNumberOfControlPoints")), value |-> Zero3]
    ELSE LET num == GetNumberOfControlPoints(m, markupsNode)
         IN  IF num = 0
             THEN [exc |-> NoExc, value |-> Zero3]
             ELSE LET sumPos == SumPosLoop(m, markupsNode, 0, num, <<0, 0, 0>>)
                  IN  [exc |-> NoExc,
                       value |-> <<Div(sumPos[1], num), Div(sumPos[2], num), Div(sumPos[3], num)>>]

\* lines 366-374: the sphere's center and radius from the control points
\* mutant: the midpoint of the first and the last control point
SphereCenter_FirstAndLast(m, inputMarkups) ==
    LET p0 == GetNthControlPointPosition(m, inputMarkups, 0)
        p1 == GetNthControlPointPosition(m, inputMarkups,
                                         GetNumberOfControlPoints(m, inputMarkups) - 1)
    IN  <<Div(p0[1] + p1[1], 2), Div(p0[2] + p1[2], 2), Div(p0[3] + p1[3], 2)>>

SphereCenter(m, inputMarkups) ==
    LET p0 == GetNthControlPointPosition(m, inputMarkups, 0)
        p1 == GetNthControlPointPosition(m, inputMarkups, 1)
    IN  <<Div(p0[1] + p1[1], 2), Div(p0[2] + p1[2], 2), Div(p0[3] + p1[3], 2)>>

SphereRadius(m, inputMarkups) ==
    LET p0 == GetNthControlPointPosition(m, inputMarkups, 0)
        p1 == GetNthControlPointPosition(m, inputMarkups, 1)
    IN  HalfRoot(linalg_norm(Sub(p0, p1)))

\* lines 376-394: geometry and display properties written to the output model
WriteOutputModel(m, outputModel, center, radius, imageThreshold) ==
    LET sphere == vtkSphereSource(center, radius, 64, 64)
        created == IF m.displayNode[outputModel].exists
                   THEN m.displayNode[outputModel] ELSE DefaultDisplayNode
        displayNode == [created EXCEPT !.color = <<1, 6, 9>>,
                                       !.opacity = imageThreshold,
                                       !.sliceIntersectionThickness = 2,
                                       !.visibility2D = TRUE]
    IN  [m EXCEPT !.polyData[outputModel] = sphere,
                  !.displayNode[outputModel] = displayNode]

\* the point-count validation of lines 361-364
\* mutant: an off-by-one validation
TooFewPoints_OffByOne(numPoints) == numPoints < 1

TooFewPoints(numPoints) == numPoints < 2

\* the stored center of mass after line 355
\* mutant: the center of mass is not stored before the validation
StoreCenterOfMass_Skip(lg, value) == lg

StoreCenterOfMass(lg, value) == [hasCenterOfMass |-> TRUE, centerOfMass |-> value]

\* process(inputMarkups, outputModel, imageThreshold): [exc, mrml, logic]
process(m, lg, inputMarkups, outputModel, imageThreshold) ==
    LET com == getCenterOfMass(m, inputMarkups)
    IN  IF com.exc # NoExc
        THEN [exc |-> com.exc, mrml |-> m, logic |-> lg]
        ELSE LET lg1 == StoreCenterOfMass(lg, com.value)
             IN  IF inputMarkups = None \/ outputModel = None
                 THEN [exc |-> ValueError(InvalidMsg), mrml |-> m, logic |-> lg1]
                 ELSE IF TooFewPoints(GetNumberOfControlPoints(m, inputMarkups))
                 THEN [exc |-> ValueError(FewMsg), mrml |-> m, logic |-> lg1]
                 ELSE [exc |-> NoExc,
                       mrml |-> WriteOutputModel(m, outputModel,
                                                 SphereCenter(m, inputMarkups),
                                                 SphereRadius(m, inputMarkups),
                                                 imageThreshold),
                       logic |-> lg1]

(***************************************************************************)
(* Execution record of one handler or call (history, not program state)    *)
(***************************************************************************)
NoRet == [exc |-> NoExc, value |-> "none"]
Tr0(op) ==
    [op |-> op,                 \* the handler or call that ran
     node |-> None,             \* the markups node an edit or a direct call is about
     calls |-> 0,               \* process invocations it made
     input |-> None,            \* arguments of the latest process invocation
     output |-> None,
     threshold |-> 0,
     exc |-> NoExc,             \* what the latest process invocation raised
     raised |-> NoExc,          \* exception in flight in the handler
     escaped |-> NoExc,         \* exception that left a callback
     errorDisplay |-> "",       \* slicer.util.errorDisplay text
     ret |-> NoRet,             \* return of a direct getCenterOfMass call
     checked |-> FALSE,         \* the checkbox when onMarkupsUpdated ran
     callbacks |-> 0,           \* onMarkupsUpdated notifications delivered
     created |-> None]          \* model node ensureValidOutputModel allocated

\* an exception is in flight: the statements that follow are skipped
Raised(s) == s.tr.raised # NoExc
Raise(s, e) == [s EXCEPT !.tr.raised = e]

(***************************************************************************)
(* Parameter node and scene as the widget uses them                        *)
(***************************************************************************)
DefaultParameterNode ==
    [inputMarkups |-> None, outputModel |-> None, imageThreshold |-> 5]

MarkupsInScene(m) == m.scene \cap MarkupIds
ModelsInScene(m) == m.scene \cap ModelIds

\* slicer.mrmlScene.GetFirstNodeByClass("vtkMRMLMarkupsFiducialNode")
GetFirstNodeByClass(m) ==
    IF MarkupsInScene(m) = {} THEN None ELSE CHOOSE n \in MarkupsInScene(m) : TRUE

\* isinstance(node, vtkMRMLModelNode)
IsModelNode(node) == node \in ModelIds

\* vtkObject.AddObserver returns a tag not in use on the object (tags are positive)
NewTag(m, node) ==
    CHOOSE t \in 1..(Cardinality(m.observers) + 1) :
        /\ <<node, t>> \notin m.observers
        /\ \A u \in 1..(t - 1) : <<node, u>> \in m.observers

(***************************************************************************)
(* SphereModuleWidget                                                      *)
(***************************************************************************)
_checkCanApply(s) ==
    IF /\ s.self._parameterNode # None
       /\ s.mrml.param.inputMarkups # None
       /\ s.mrml.param.outputModel # None
    THEN [s EXCEPT !.ui.applyButton = [toolTip |-> "Create sphere", enabled |-> TRUE]]
    ELSE [s EXCEPT !.ui.applyButton =
              [toolTip |-> "Select input markups and output model", enabled |-> FALSE]]

\* the ModifiedEvent of the parameter node reaches _checkCanApply while observed
\* mutant: _checkCanApply is not registered as an observer
ParameterNodeModified_Unobserved(s) == s

ParameterNodeModified(s) ==
    IF s.self.observesParameterNode THEN _checkCanApply(s) ELSE s

SetInputMarkups(s, node) ==
    ParameterNodeModified([s EXCEPT !.mrml.param.inputMarkups = node])
SetOutputModel(s, node) ==
    ParameterNodeModified([s EXCEPT !.mrml.param.outputModel = node])

\* slicer.mrmlScene.AddNewNodeByClass("vtkMRMLModelNode", "SphereOutput")
AddNewModelNode(m) == CHOOSE o \in ModelIds : o \notin m.scene

\* lines 189-193: remove the registered markups observer
RemoveMarkupsObserver(s) ==
    IF s.self._markupsObserverTag # 0 /\ s.self.observedMarkupNode # None
    THEN [s EXCEPT !.mrml.observers =
                       @ \ {<<s.self.observedMarkupNode, s.self._markupsObserverTag>>},
                   !.self._markupsObserverTag = 0,
                   !.self.observedMarkupNode = None]
    ELSE s

\* lines 195-201: attach an observer to the current input markups
AddMarkupsObserver(s, enabled) ==
    IF ~enabled THEN s
    ELSE IF s.self._parameterNode = None
    THEN Raise(s, AttributeError(NoneTypeMsg("inputMarkups")))
    ELSE IF s.mrml.param.inputMarkups = None THEN s
    ELSE LET node == s.mrml.param.inputMarkups
             tag == NewTag(s.mrml, node)
         IN  [s EXCEPT !.self.observedMarkupNode = node,
                       !.self._markupsObserverTag = tag,
                       !.mrml.observers = @ \cup {<<node, tag>>}]

onEnableAutoUpdate(s, enabled) == AddMarkupsObserver(RemoveMarkupsObserver(s), enabled)

setParameterNode(s, inputParameterNode) ==
    LET s1 == IF s.self._parameterNode # None
              THEN [s EXCEPT !.self.observesParameterNode = FALSE]
              ELSE s
        s2 == [s1 EXCEPT !.self._parameterNode = inputParameterNode]
    IN  IF inputParameterNode = None THEN s2
        ELSE LET s3 == _checkCanApply(
                           [s2 EXCEPT !.self._parameterNodeGuiTag = "tag",
                                      !.self.observesParameterNode = TRUE])
             IN  IF s3.ui.autoUpdateCheckBox THEN onEnableAutoUpdate(s3, TRUE) ELSE s3

initializeParameterNode(s) ==
    LET s1 == setParameterNode(s, "parameterNode")
        SelectFirst(t) ==
            IF t.mrml.param.inputMarkups = None /\ GetFirstNodeByClass(t.mrml) # None
            THEN SetInputMarkups(t, GetFirstNodeByClass(t.mrml))
            ELSE t
        CreateOutput(t) ==
            IF t.mrml.param.outputModel = None
            THEN LET model == AddNewModelNode(t.mrml)
                 IN  SetOutputModel([t EXCEPT !.mrml.scene = @ \cup {model}], model)
            ELSE t
        s2 == IF Raised(s1) THEN s1 ELSE SelectFirst(s1)
    IN  IF Raised(s2) THEN s2 ELSE CreateOutput(s2)

\* mutant: an invalid output model is left as it is
ensureValidOutputModel_NoRepair(s) ==
    IF s.self._parameterNode = None
    THEN Raise(s, AttributeError(NoneTypeMsg("outputModel")))
    ELSE s

ensureValidOutputModel(s) ==
    IF s.self._parameterNode = None
    THEN Raise(s, AttributeError(NoneTypeMsg("outputModel")))
    ELSE IF ~IsModelNode(s.mrml.param.outputModel)
    THEN LET model == AddNewModelNode(s.mrml)
         IN  SetOutputModel([s EXCEPT !.mrml.scene = @ \cup {model},
                                      !.tr.created = model], model)
    ELSE s

\* f"{c:.2f}": hundredths, rounded to nearest
Format2f(q) == (200 * q[1] + q[2]) \div (2 * q[2])

\* lines 270-283: the try block of onApplyButton
TryProcess(s) ==
    LET inputMarkups == s.mrml.param.inputMarkups
        outputModel == s.mrml.param.outputModel
        imageThreshold == s.mrml.param.imageThreshold
        r == process(s.mrml, s.logic, inputMarkups, outputModel, imageThreshold)
        s1 == [s EXCEPT !.mrml = r.mrml, !.logic = r.logic,
                        !.tr.calls = @ + 1,
                        !.tr.input = inputMarkups,
                        !.tr.output = outputModel,
                        !.tr.threshold = imageThreshold,
                        !.tr.exc = r.exc]
    IN  IF r.exc # NoExc
        THEN [s1 EXCEPT !.tr.errorDisplay = "Error updating the sphere: " \o r.exc.msg]
        ELSE IF ~r.logic.hasCenterOfMass THEN s1
        ELSE LET c == r.logic.centerOfMass
             IN  [s1 EXCEPT !.ui.centerOfMassValueLabel =
                                <<Format2f(c[1]), Format2f(c[2]), Format2f(c[3])>>]

onApplyButton(s) ==
    LET s1 == ensureValidOutputModel(s)
    IN  IF Raised(s1) THEN s1 ELSE TryProcess(s1)

onMarkupsUpdated(s) ==
    LET s0 == [s EXCEPT !.tr.checked = s.ui.autoUpdateCheckBox]
    IN  IF ~s.ui.autoUpdateCheckBox THEN s0
        ELSE LET s1 == ensureValidOutputModel(s0)
             IN  IF Raised(s1) THEN s1 ELSE onApplyButton(s1)

exit(s) ==
    IF s.self._parameterNode # None
    THEN [s EXCEPT !.self._parameterNodeGuiTag = None,
                   !.self.observesParameterNode = FALSE]
    ELSE s

onSceneStartClose(s) == setParameterNode(s, None)

onSceneEndClose(s) == IF s.ui.isEntered THEN initializeParameterNode(s) ELSE s

(***************************************************************************)
(* The host around the handlers                                            *)
(***************************************************************************)
Cur(op) == [mrml |-> mrml, logic |-> logic, self |-> self, ui |-> ui,
            tr |-> Tr0(op)]

\* an exception leaving a Qt slot or a VTK callback is reported by the host
LeaveCallback(s) ==
    [s EXCEPT !.tr.escaped = IF s.tr.raised # NoExc THEN s.tr.raised ELSE @,
              !.tr.raised = NoExc]

Commit(s) ==
    LET f == LeaveCallback(s)
    IN  /\ mrml' = f.mrml
        /\ logic' = f.logic
        /\ self' = f.self
        /\ ui' = f.ui
        /\ last' = f.tr

\* markups nodes that exist: in the scene, or kept alive by the widget's reference
HeldMarkups(sf) == {sf.observedMarkupNode} \ {None}
LiveMarkups == MarkupsInScene(mrml) \cup HeldMarkups(self)

\* ModifiedEvent of a markups node: every observer registered on it is called
RECURSIVE InvokeModified(_, _)
InvokeModified(s, tags) ==
    IF tags = {} THEN s
    ELSE LET t == CHOOSE x \in tags : TRUE
             r == LeaveCallback(onMarkupsUpdated([s EXCEPT !.tr.callbacks = @ + 1]))
         IN  InvokeModified(r, tags \ {t})

MarkupsModified(s, node) ==
    InvokeModified([s EXCEPT !.tr.node = node],
                   {o[2] : o \in {x \in s.mrml.observers : x[1] = node}})

\* vtkMRMLScene::Clear between StartCloseEvent and EndCloseEvent
ClearScene(s) ==
    [s EXCEPT !.mrml.scene = {},
              !.mrml.points = [n \in MarkupIds |->
                                  IF n \in HeldMarkups(s.self) THEN @[n] ELSE <<>>],
              !.mrml.polyData = [o \in ModelIds |-> NoPolyData],
              !.mrml.displayNode = [o \in ModelIds |-> NoDisplayNode],
              !.mrml.param = DefaultParameterNode,
              !.mrml.closing = FALSE]

(***************************************************************************)
(* Initial states                                                          *)
(***************************************************************************)
EmptyScene ==
    [scene |-> {}, points |-> [n \in MarkupIds |-> <<>>],
     polyData |-> [o \in ModelIds |-> NoPolyData],
     displayNode |-> [o \in ModelIds |-> NoDisplayNode],
     observers |-> {}, param |-> DefaultParameterNode, closing |-> FALSE]

\* SphereModuleWidget.__init__ (tag 0 stands for None: both are falsy at line 190)
WidgetInit ==
    [logic |-> None, _parameterNode |-> None, _parameterNodeGuiTag |-> None,
     observedMarkupNode |-> None, _markupsObserverTag |-> 0,
     observesParameterNode |-> FALSE]

UiInit ==
    [applyButton |-> [toolTip |-> "", enabled |-> FALSE],
     autoUpdateCheckBox |-> FALSE, centerOfMassValueLabel |-> <<>>,
     isEntered |-> FALSE]

\* SphereModuleLogic.__init__: no centerOfMass attribute yet (hasattr is False)
LogicInit == [hasCenterOfMass |-> FALSE, centerOfMass |-> Zero3]

Init ==
    /\ mrml = EmptyScene
    /\ logic = LogicInit
    /\ self = WidgetInit
    /\ ui = UiInit
    /\ last = Tr0("init")

\* a script that owns a logic, one fiducial node and one model node (lines 421-429)
TestScene == [EmptyScene EXCEPT !.scene = {"F1", "SphereOutput1"}]

InitLogic ==
    /\ mrml = TestScene
    /\ logic = LogicInit
    /\ self = WidgetInit
    /\ ui = UiInit
    /\ last = Tr0("init")

(***************************************************************************)
(* Actions: edits of a markups node                                        *)
(***************************************************************************)
RemoveAt(seq, i) == SubSeq(seq, 1, i - 1) \o SubSeq(seq, i + 1, Len(seq))

AddControlPoint(vals, max) ==
    \E n \in LiveMarkups, p \in vals :
        /\ ~mrml.closing
        /\ Len(mrml.points[n]) < max
        /\ Commit(MarkupsModified(
               [Cur("AddControlPoint") EXCEPT !.mrml.points[n] = Append(@, p)], n))

RemoveNthControlPoint ==
    \E n \in LiveMarkups :
        \E i \in 1..Len(mrml.points[n]) :
            /\ ~mrml.closing
            /\ Commit(MarkupsModified(
                   [Cur("RemoveNthControlPoint") EXCEPT !.mrml.points[n] = RemoveAt(@, i)], n))

SetNthControlPointPosition(vals) ==
    \E n \in LiveMarkups, p \in vals :
        \E i \in 1..Len(mrml.points[n]) :
            /\ ~mrml.closing
            /\ mrml.points[n][i] # p
            /\ Commit(MarkupsModified(
                   [Cur("SetNthControlPointPosition") EXCEPT !.mrml.points[n][i] = p], n))

(***************************************************************************)
(* Actions: a script calling the logic                                     *)
(***************************************************************************)
CallProcess ==
    \E inputMarkups \in MarkupsInScene(mrml) \cup {None},
       outputModel \in ModelsInScene(mrml) \cup {None},
       imageThreshold \in Thresholds :
        LET s == Cur("process")
            r == process(mrml, logic, inputMarkups, outputModel, imageThreshold)
        IN  Commit([s EXCEPT !.mrml = r.mrml, !.logic = r.logic,
                             !.tr.calls = 1,
                             !.tr.input = inputMarkups,
                             !.tr.output = outputModel,
                             !.tr.threshold = imageThreshold,
                             !.tr.exc = r.exc,
                             !.tr.raised = r.exc])

CallGetCenterOfMass ==
    \E markupsNode \in MarkupsInScene(mrml) :
        LET s == Cur("getCenterOfMass")
            r == getCenterOfMass(mrml, markupsNode)
        IN  Commit([s EXCEPT !.tr.node = markupsNode,
                             !.tr.ret = r,
                             !.tr.raised = r.exc])

NextLogic ==
    \/ AddControlPoint(PointVals, MaxPoints)
    \/ RemoveNthControlPoint
    \/ SetNthControlPointPosition(PointVals)
    \/ CallProcess
    \/ CallGetCenterOfMass

SpecLogic == InitLogic /\ [][NextLogic]_vars

(***************************************************************************)
(* Actions: the module widget in the application                           *)
(***************************************************************************)
IsSetup == self.logic # None

\* setup(): the logic is created, the scene is observed, the parameter node initialized
Setup ==
    /\ ~IsSetup
    /\ ~mrml.closing
    /\ Commit(initializeParameterNode([Cur("setup") EXCEPT !.self.logic = "logic"]))

Enter ==
    /\ IsSetup /\ ~ui.isEntered /\ ~mrml.closing
    /\ Commit(initializeParameterNode([Cur("enter") EXCEPT !.ui.isEntered = TRUE]))

Exit ==
    /\ IsSetup /\ ui.isEntered /\ ~mrml.closing
    /\ Commit(exit([Cur("exit") EXCEPT !.ui.isEntered = FALSE]))

SceneStartClose ==
    /\ IsSetup /\ ~mrml.closing
    /\ Commit(onSceneStartClose([Cur("onSceneStartClose") EXCEPT !.mrml.closing = TRUE]))

SceneEndClose ==
    /\ IsSetup /\ mrml.closing
    /\ Commit(onSceneEndClose(ClearScene(Cur("onSceneEndClose"))))

\* the user creates a fiducial node
AddMarkupsNode ==
    \E n \in MarkupIds \ LiveMarkups :
        /\ ~mrml.closing
        /\ mrml' = [mrml EXCEPT !.scene = @ \cup {n}, !.points[n] = <<>>]
        /\ last' = Tr0("AddMarkupsNode")
        /\ UNCHANGED <<logic, self, ui>>

\* parameter changes: the node selectors, or a script setting the node
SelectInputMarkups ==
    \E n \in MarkupsInScene(mrml) \cup {None} :
        /\ IsSetup /\ ~mrml.closing
        /\ n # mrml.param.inputMarkups
        /\ Commit(SetInputMarkups(Cur("inputMarkups"), n))

SelectOutputModel ==
    \E o \in ModelsInScene(mrml) \cup {None} :
        /\ IsSetup /\ ~mrml.closing
        /\ o # mrml.param.outputModel
        /\ o = None => ModelIds \ mrml.scene # {}
        /\ Commit(SetOutputModel(Cur("outputModel"), o))

\* autoUpdateCheckBox toggled(bool)
ToggleAutoUpdate ==
    /\ IsSetup /\ ui.isEntered /\ ~mrml.closing
    /\ LET enabled == ~ui.autoUpdateCheckBox
       IN  Commit(onEnableAutoUpdate(
               [Cur("onEnableAutoUpdate") EXCEPT !.ui.autoUpdateCheckBox = enabled],
               enabled))

\* applyButton clicked(bool)
ClickApply ==
    /\ IsSetup /\ ui.isEntered /\ ~mrml.closing
    /\ ui.applyButton.enabled
    /\ Commit(onApplyButton(Cur("onApplyButton")))

Next ==
    \/ Setup
    \/ Enter
    \/ Exit
    \/ SceneStartClose
    \/ SceneEndClose
    \/ AddMarkupsNode
    \/ SelectInputMarkups
    \/ SelectOutputModel
    \/ ToggleAutoUpdate
    \/ ClickApply
    \/ AddControlPoint(WidgetPointVals, WidgetMaxPoints)
    \/ RemoveNthControlPoint

Spec == Init /\ [][Next]_vars

(***************************************************************************)
(* Properties                                                              *)
(***************************************************************************)
RECURSIVE CoordSum(_, _)
CoordSum(pts, i) == IF pts = <<>> THEN 0 ELSE Head(pts)[i] + CoordSum(Tail(pts), i)

\* c is the coordinate-wise arithmetic mean of the non-empty sequence pts
IsMeanOf(c, pts) ==
    \A i \in 1..3 : c[i][2] > 0 /\ c[i][1] * Len(pts) = CoordSum(pts, i) * c[i][2]

IsCenterOfMassOf(c, pts) ==
    /\ pts = <<>> => c = <<<<0, 1>>, <<0, 1>>, <<0, 1>>>>
    /\ pts # <<>> => IsMeanOf(c, pts)
    /\ pts = <<<<0, 0, 0>>, <<10, 0, 0>>>> => c = <<<<5, 1>>, <<0, 1>>, <<0, 1>>>>

SquaredDistance(p, q) ==
    (p[1] - q[1]) * (p[1] - q[1]) + (p[2] - q[2]) * (p[2] - q[2])
        + (p[3] - q[3]) * (p[3] - q[3])

C4_InvalidInputError ==
    (last.op = "process" /\ (last.input = None \/ last.output = None)) =>
        last.exc = ValueError(InvalidMsg)

C6_Original ==
    IsSetup =>
        (ui.applyButton.enabled <=>
            /\ self._parameterNode # None
            /\ mrml.param.inputMarkups # None
            /\ mrml.param.outputModel # None)

\* C6 as amended: while the widget holds a parameter node and observes it, the
\* Apply button is enabled exactly when both nodes are selected in it.
C6_EnabledWhileObserved ==
    (self._parameterNode # None /\ self.observesParameterNode) =>
        (ui.applyButton.enabled <=>
            (mrml.param.inputMarkups # None /\ mrml.param.outputModel # None))

C6_Witness ==
    /\ self._parameterNode # None /\ self.observesParameterNode
    /\ last.op = "inputMarkups"
    /\ mrml.param.inputMarkups = None /\ mrml.param.outputModel # None
    /\ ~ui.applyButton.enabled

\* C7: no exception leaves onApplyButton or onMarkupsUpdated, and every failing
\* process call ends in an error display.
C7_NoExceptionEscapes ==
    (last.op = "onApplyButton" \/ last.callbacks > 0) =>
        /\ last.escaped = NoExc
        /\ last.exc # NoExc => last.errorDisplay # ""

\* C8: whenever the widget invokes process, the output model passed is a model
\* node of the scene and the one stored in the parameter node (the node just
\* allocated when the previous target was invalid), and the invalid-input error
\* is not displayed.
C8_ValidOutputPassed ==
    last.calls > 0 =>
        /\ last.output \in ModelIds
        /\ last.output \in mrml.scene
        /\ last.output = mrml.param.outputModel
        /\ last.created # None => last.output = last.created
        /\ last.errorDisplay # "Error updating the sphere: " \o InvalidMsg

C8_Witness ==
    /\ last.calls = 1
    /\ last.created # None
    /\ last.output = last.created
    /\ last.exc = NoExc

\* C9: while a parameter node is set, a held markups observer is attached to the
\* parameter node's current inputMarkups, and one is held whenever auto-update is
\* checked and an input is selected.
C9_ObserverFollowsInput ==
    self._parameterNode # None =>
        /\ self.observedMarkupNode # None =>
               self.observedMarkupNode = mrml.param.inputMarkups
        /\ (ui.autoUpdateCheckBox /\ mrml.param.inputMarkups # None) =>
               self.observedMarkupNode # None

\* C10: a markups edit is delivered to at most one onMarkupsUpdated, which calls
\* process exactly once when auto-update is checked and not at all otherwise; at
\* most one markups observer is registered, and none while auto-update is off.
C10_OncePerNotification ==
    /\ last.callbacks > 0 =>
           /\ last.callbacks = 1
           /\ last.calls = IF last.checked THEN 1 ELSE 0
    /\ Cardinality(mrml.observers) <= 1
    /\ ~ui.autoUpdateCheckBox => mrml.observers = {}

====
